---- MODULE Spec2Model ----
(***************************************************************************)
(* State-machine model of the web client of research-paper-summarizer:     *)
(*   - ResultsPage, polling version (frontend/app/results/[jobId]/page.tsx)*)
(*   - ChatPanel (frontend/components/ModelFile.tsx, lines 69-374)         *)
(* The remote API is the environment: every response is chosen by the      *)
(* server and is nondeterministic here.                                    *)
(***************************************************************************)
EXTENDS Integers, Sequences, FiniteSets, Bags, TLC

(***************************************************************************)
(* Bounds of the model.                                                    *)
(***************************************************************************)
MaxEffects == 2      \* runs of the ResultsPage effect (mount + jobId changes)
MaxReq == 2          \* status requests started during one mount
MaxTicks == 1        \* progress-timer ticks during one mount
MaxSends == 2        \* messages sent through the chat panel
MaxGets == 2         \* chat-history GETs in flight at the same time

Jobs == {"A", "B"}
Gens == 1..MaxEffects

(***************************************************************************)
(* Program constants of the results page.                                  *)
(***************************************************************************)
ProgressCap == 90
RandomMax == 5

VARIABLES
    \* ---- shared prop ----
    jobId,
    \* ---- ResultsPage component state (useState cells) ----
    loading, data, error, progress, statusMessage,
    \* ---- ResultsPage effect closures, one per run of the effect ----
    phase,             \* "init" (rendered, effect not yet run), "mounted", "unmounted"
    cur,               \* number of the latest effect run (0: none)
    effectJob,         \* jobId captured by the closure of each run
    pollingInterval,   \* TRUE while the 3 s timer of the run is set
    progressInterval,  \* TRUE while the 500 ms timer of the run is set
    progressCounter,   \* the closure variable progressCounter of the run
    inflight,          \* status requests of the run that have not settled
    \* ---- observation of the page ----
    issued,            \* number of status requests the run has started
    nticks,            \* number of progress ticks the run has taken
    terminal,          \* the run has processed completed / failed / a fetch error
    last,              \* the last event handled by the page
    \* ---- ChatPanel component state ----
    isOpen, chatHistory, message, isLoading, panelWidth, isResizing,
    \* ---- chat API: server and requests in flight ----
    serverLog,         \* the server's conversation log of each job
    gets,              \* bag of history GETs in flight
    posts,             \* set of chat POSTs in flight
    sentUnder,         \* sentUnder[n]: the jobId under which the n-th send was issued
    chatLast           \* the last event of the panel or of the chat server

pageVars == <<loading, data, error, progress, statusMessage, phase, cur,
              effectJob, pollingInterval, progressInterval, progressCounter,
              inflight, issued, nticks, terminal, last>>
chatVars == <<isOpen, chatHistory, message, isLoading,
              serverLog, gets, posts, sentUnder, chatLast>>
resizeVars == <<panelWidth, isResizing>>
vars == <<jobId, pageVars, chatVars, resizeVars>>

(***************************************************************************)
(* ResultsPage: values                                                     *)
(***************************************************************************)
NoResult == ""
Null == [status |-> "null", id |-> "", result |-> NoResult]

\* The analysis the server holds for job j.
ResultOf(j) == j

\* JSON bodies GET /api/status/{j} can return.
StatusBodies(j) ==
    {[status |-> "completed", id |-> j, result |-> ResultOf(j)],
     [status |-> "completed", id |-> j, result |-> NoResult],
     [status |-> "in_progress", id |-> j, result |-> NoResult],
     [status |-> "failed", id |-> j, result |-> NoResult],
     [status |-> "queued", id |-> j, result |-> NoResult]}

\* Ways the fetch can fail: fetch rejects, !response.ok, response.json() rejects.
FetchErrors == {"network_error", "http_error", "parse_error"}

NoEvent == [kind |-> "none", gen |-> 0, body |-> Null]
Event(k, g, b) == [kind |-> k, gen |-> g, body |-> b]

Min(a, b) == IF a < b THEN a ELSE b

RECURSIVE SumTo(_, _)
SumTo(f, n) == IF n = 0 THEN 0 ELSE f[n] + SumTo(f, n - 1)
Total(f) == SumTo(f, MaxEffects)

\* What the component renders (page.tsx 77-172).
View ==
    IF loading THEN "loader"
    ELSE IF data = Null \/ data.result = NoResult THEN "not_found"
    ELSE "results"

(***************************************************************************)
(* ResultsPage: the effect (page.tsx 21-75)                                *)
(***************************************************************************)
\* fetchData up to its first await: the request is on the wire.
StartFetch(g) ==
    /\ inflight' = [inflight EXCEPT ![g] = @ + 1]
    /\ issued' = [issued EXCEPT ![g] = @ + 1]

\* The body of the effect: fetchData(); setInterval(fetchData, 3000);
\* setInterval(progress tick, 500).  progressCounter starts at 0.
RunEffect(g, j) ==
    /\ cur' = g
    /\ effectJob' = [effectJob EXCEPT ![g] = j]
    /\ progressCounter' = [progressCounter EXCEPT ![g] = 0]
    /\ StartFetch(g)
    /\ pollingInterval' = [pollingInterval EXCEPT ![g] = TRUE]
    /\ progressInterval' = [progressInterval EXCEPT ![g] = TRUE]

\* Variant of CleanupThenRun whose cleanup forgets clearInterval(progressInterval).
CleanupKeepsProgressTimer(g, j) ==
    /\ cur' = g
    /\ effectJob' = [effectJob EXCEPT ![g] = j]
    /\ progressCounter' = [progressCounter EXCEPT ![g] = 0]
    /\ StartFetch(g)
    /\ pollingInterval' = [pollingInterval EXCEPT ![cur] = FALSE, ![g] = TRUE]
    /\ progressInterval' = [progressInterval EXCEPT ![g] = TRUE]

\* The cleanup returned by the effect, followed by the next run of the effect.
CleanupThenRun(g, j) ==
    /\ cur' = g
    /\ effectJob' = [effectJob EXCEPT ![g] = j]
    /\ progressCounter' = [progressCounter EXCEPT ![g] = 0]
    /\ StartFetch(g)
    /\ pollingInterval' = [pollingInterval EXCEPT ![cur] = FALSE, ![g] = TRUE]
    /\ progressInterval' = [progressInterval EXCEPT ![cur] = FALSE, ![g] = TRUE]

\* First commit of the component: the effect runs for the initial jobId.
Mount ==
    /\ phase = "init"
    /\ phase' = "mounted"
    /\ RunEffect(1, jobId)
    /\ last' = Event("mount", 1, Null)
    /\ UNCHANGED <<jobId, loading, data, error, progress, statusMessage,
                   nticks, terminal>>
    /\ UNCHANGED <<chatVars, resizeVars>>

\* The page is re-rendered with another jobId: cleanup of the previous run,
\* then the effect runs again.  No useState cell is reset.
ChangeJobId(j) ==
    /\ phase = "mounted"
    /\ j # jobId
    /\ cur < MaxEffects
    /\ Total(issued) < MaxReq
    /\ jobId' = j
    /\ CleanupThenRun(cur + 1, j)
    /\ last' = Event("jobId", cur + 1, Null)
    /\ UNCHANGED <<phase, loading, data, error, progress, statusMessage,
                   nticks, terminal>>
    /\ UNCHANGED <<chatVars, resizeVars>>

\* The component unmounts: only the cleanup runs.
Unmount ==
    /\ phase = "mounted"
    /\ phase' = "unmounted"
    /\ pollingInterval' = [pollingInterval EXCEPT ![cur] = FALSE]
    /\ progressInterval' = [progressInterval EXCEPT ![cur] = FALSE]
    /\ last' = Event("unmount", cur, Null)
    /\ UNCHANGED <<jobId, loading, data, error, progress, statusMessage, cur,
                   effectJob, progressCounter, inflight, issued, nticks,
                   terminal>>
    /\ UNCHANGED <<chatVars, resizeVars>>

\* The 3 s timer of run g fires: fetchData() is called again.
PollTick(g) ==
    /\ pollingInterval[g]
    /\ Total(issued) < MaxReq
    /\ StartFetch(g)
    /\ last' = Event("poll", g, Null)
    /\ UNCHANGED <<jobId, loading, data, error, progress, statusMessage,
                   phase, cur, effectJob, pollingInterval, progressInterval,
                   progressCounter, nticks, terminal>>
    /\ UNCHANGED <<chatVars, resizeVars>>

\* The 500 ms timer of run g fires (page.tsx 64-69).
ProgressTick(g) ==
    /\ progressInterval[g]
    /\ Total(nticks) < MaxTicks
    /\ nticks' = [nticks EXCEPT ![g] = @ + 1]
    /\ IF progressCounter[g] < ProgressCap
         THEN /\ progressCounter' = [progressCounter EXCEPT ![g] = @ + 1]
              /\ progress' = progressCounter[g] + 1
         ELSE UNCHANGED <<progressCounter, progress>>
    /\ last' = Event("progress", g, Null)
    /\ UNCHANGED <<jobId, loading, data, error, statusMessage, phase, cur,
                   effectJob, pollingInterval, progressInterval, inflight,
                   issued, terminal>>
    /\ UNCHANGED <<chatVars, resizeVars>>

(***************************************************************************)
(* ResultsPage: fetchData after the await (page.tsx 33-58)                 *)
(***************************************************************************)
\* Variant of OnCompleted that forgets setLoading(false).
OnCompletedKeepsLoading(g, body) ==
    /\ data' = body
    /\ pollingInterval' = [pollingInterval EXCEPT ![g] = FALSE]
    /\ terminal' = [terminal EXCEPT ![g] = TRUE]
    /\ UNCHANGED <<loading, error, progress, statusMessage, progressCounter>>

\* status === 'completed' (page.tsx 35-39)
OnCompleted(g, body) ==
    /\ data' = body
    /\ loading' = FALSE
    /\ pollingInterval' = [pollingInterval EXCEPT ![g] = FALSE]
    /\ terminal' = [terminal EXCEPT ![g] = TRUE]
    /\ UNCHANGED <<error, progress, statusMessage, progressCounter>>

\* Variant of OnInProgress that puts the page back on the loader.
OnInProgressRestartsLoading(g, body, r) ==
    /\ statusMessage' = "Analyzing paper"
    /\ loading' = TRUE
    /\ IF progressCounter[g] < ProgressCap
         THEN /\ progressCounter' = [progressCounter EXCEPT ![g] = @ + r]
              /\ progress' = Min(progressCounter[g] + r, ProgressCap)
         ELSE UNCHANGED <<progressCounter, progress>>
    /\ UNCHANGED <<data, error, pollingInterval, terminal>>

\* Variant of OnInProgress that forgets Math.min(progressCounter, 90).
OnInProgressUncapped(g, body, r) ==
    /\ statusMessage' = "Analyzing paper"
    /\ IF progressCounter[g] < ProgressCap
         THEN /\ progressCounter' = [progressCounter EXCEPT ![g] = @ + r]
              /\ progress' = progressCounter[g] + r
         ELSE UNCHANGED <<progressCounter, progress>>
    /\ UNCHANGED <<data, loading, error, pollingInterval, terminal>>

\* status === 'in_progress' (page.tsx 40-47); r is Math.floor(Math.random()*5)+1
OnInProgress(g, body, r) ==
    /\ statusMessage' = "Analyzing paper"
    /\ IF progressCounter[g] < ProgressCap
         THEN /\ progressCounter' = [progressCounter EXCEPT ![g] = @ + r]
              /\ progress' = Min(progressCounter[g] + r, ProgressCap)
         ELSE UNCHANGED <<progressCounter, progress>>
    /\ UNCHANGED <<data, loading, error, pollingInterval, terminal>>

\* Variant of OnFailed that forgets clearInterval(pollingInterval).
OnFailedKeepsPolling(g, body) ==
    /\ error' = "Analysis failed"
    /\ loading' = FALSE
    /\ terminal' = [terminal EXCEPT ![g] = TRUE]
    /\ UNCHANGED <<data, progress, statusMessage, progressCounter,
                   pollingInterval>>

\* status === 'failed' (page.tsx 48-52)
OnFailed(g, body) ==
    /\ error' = "Analysis failed"
    /\ loading' = FALSE
    /\ pollingInterval' = [pollingInterval EXCEPT ![g] = FALSE]
    /\ terminal' = [terminal EXCEPT ![g] = TRUE]
    /\ UNCHANGED <<data, progress, statusMessage, progressCounter>>

\* Variant of OnOtherStatus that treats an unknown status as the end of the job.
OnOtherStatusEndsLoading(g, body) ==
    /\ loading' = FALSE
    /\ UNCHANGED <<data, error, progress, statusMessage,
                   progressCounter, pollingInterval, terminal>>

\* any other status: no branch is taken
OnOtherStatus(g, body) ==
    UNCHANGED <<data, loading, error, progress, statusMessage,
                progressCounter, pollingInterval, terminal>>

\* Variant of OnFetchError that forgets setLoading(false).
OnFetchErrorKeepsLoading(g) ==
    /\ error' = "Failed to connect to analysis server"
    /\ pollingInterval' = [pollingInterval EXCEPT ![g] = FALSE]
    /\ terminal' = [terminal EXCEPT ![g] = TRUE]
    /\ UNCHANGED <<data, loading, progress, statusMessage, progressCounter>>

\* catch (page.tsx 53-58)
OnFetchError(g) ==
    /\ error' = "Failed to connect to analysis server"
    /\ loading' = FALSE
    /\ pollingInterval' = [pollingInterval EXCEPT ![g] = FALSE]
    /\ terminal' = [terminal EXCEPT ![g] = TRUE]
    /\ UNCHANGED <<data, progress, statusMessage, progressCounter>>

\* A request of run g settles with a JSON body.
SettleBody(g, body, r) ==
    /\ inflight[g] > 0
    /\ inflight' = [inflight EXCEPT ![g] = @ - 1]
    /\ CASE body.status = "completed" -> OnCompleted(g, body)
         [] body.status = "in_progress" -> OnInProgress(g, body, r)
         [] body.status = "failed" -> OnFailed(g, body)
         [] OTHER -> OnOtherStatus(g, body)
    /\ last' = Event("response", g, body)
    /\ UNCHANGED <<jobId, phase, cur, effectJob, progressInterval, issued,
                   nticks>>
    /\ UNCHANGED <<chatVars, resizeVars>>

\* A request of run g settles with a failure.
SettleError(g, e) ==
    /\ inflight[g] > 0
    /\ inflight' = [inflight EXCEPT ![g] = @ - 1]
    /\ OnFetchError(g)
    /\ last' = Event(e, g, Null)
    /\ UNCHANGED <<jobId, phase, cur, effectJob, progressInterval, issued,
                   nticks>>
    /\ UNCHANGED <<chatVars, resizeVars>>

(***************************************************************************)
(* ResultsPage: properties                                                 *)
(***************************************************************************)
IsFailure(e) ==
    \/ e.kind \in FetchErrors
    \/ e.kind = "response" /\ e.body.status = "failed"

IsCompletedWithResult(e) ==
    /\ e.kind = "response"
    /\ e.body.status = "completed"
    /\ e.body.result # NoResult

\* The cleanup of effect run g has run (a later run exists, or the page unmounted).
Cleaned(g) == g >= 1 /\ g <= cur /\ (g < cur \/ phase = "unmounted")

\* C1: right after a 'completed' response that carries a result is processed,
\* loading is false, data is that response and the results view is rendered.
C1_CompletedShowsResults ==
    IsCompletedWithResult(last) =>
        /\ loading = FALSE
        /\ data = last.body
        /\ View = "results"

\* C1 witness: a completed response with a result was processed after the page
\* had already handled a failure.
C1_Witness ==
    /\ IsCompletedWithResult(last)
    /\ error # "null"
    /\ View = "results"

\* C2 as stated, for a mount whose jobId never changes (one run of the
\* effect): right after a fetch failure or a 'failed' response is processed,
\* loading is false and the 'Analysis not found' view is rendered.
C2_FailureShowsNotFound ==
    (IsFailure(last) /\ cur = 1) => (loading = FALSE /\ View = "not_found")

\* C2 amended: a fetch failure or a 'failed' response clears loading and leaves
\* data as it was; the fallback view is rendered when data held no result
\* before, and the results view of the stored data stays otherwise.
C2_FailureClearsLoadingKeepsData ==
    [][IsFailure(last') =>
          /\ loading' = FALSE
          /\ data' = data
          /\ View' = IF data = Null \/ data.result = NoResult
                       THEN "not_found" ELSE "results"]_vars

\* C2 witness: a failure was processed while two requests overlapped, and the
\* fallback view is rendered.
C2_Witness ==
    /\ IsFailure(last)
    /\ View = "not_found"
    /\ inflight[last.gen] > 0
    /\ error # "null"

C4_PollsAndStaysOnLoader ==
    [][/\ (phase' = "mounted" /\ ~terminal'[cur']) =>
              (pollingInterval'[cur'] /\ issued'[cur'] >= 1)
       /\ last'.kind \in {"mount", "jobId", "poll"} =>
              inflight'[last'.gen] = inflight[last'.gen] + 1
       /\ (\A g \in Gens : ~terminal'[g]) =>
              (loading' = TRUE /\ data' = Null /\ View' = "loader")]_vars

\* C4 witness: an 'in_progress' or unrecognised response was processed while
\* another request of the same run is outstanding, and the loader is shown.
C4_Witness ==
    /\ last.kind = "response"
    /\ last.body.status \in {"in_progress", "queued"}
    /\ inflight[last.gen] >= 1
    /\ \A g \in Gens : ~terminal[g]
    /\ View = "loader"

\* C5: after the cleanup of run g, both of its timers are cleared, the run
\* starts no request and takes no progress tick; the cleanup leaves the
\* requests in flight alone, and a 'completed' response of a cleaned-up run
\* is still stored in data.
C5_CleanupStopsTimersOnly ==
    [][\A g \in Gens :
          /\ Cleaned(g)' => (~pollingInterval'[g] /\ ~progressInterval'[g])
          /\ Cleaned(g) => (issued'[g] = issued[g] /\ nticks'[g] = nticks[g])
          /\ (Cleaned(g)' /\ ~Cleaned(g)) => inflight'[g] = inflight[g]
          /\ (Cleaned(g) /\ last'.gen = g /\ last'.kind = "response"
                /\ last'.body.status = "completed") =>
                 (data' = last'.body /\ loading' = FALSE)]_vars

\* C5 witness: the completed response of a request issued by a cleaned-up run
\* has been applied to the component state after the jobId changed.
C5_Witness ==
    /\ last.kind = "response"
    /\ last.body.status = "completed"
    /\ Cleaned(last.gen)
    /\ phase = "mounted"
    /\ data = last.body
    /\ inflight[cur] > 0

\* C6 as stated: the analysis rendered for a jobId is the one returned for
\* that jobId.
C6_ShownAnalysisIsOfCurrentJob ==
    View = "results" => data.id = jobId

\* C11 as stated, for a mount whose jobId never changes: once a failure has
\* been processed and the fallback view is rendered, every later step leaves
\* the fallback view rendered.
C11_FallbackIsFinal ==
    [][(error # "null" /\ View = "not_found" /\ cur' = 1) =>
           View' = "not_found"]_vars

\* C11 amended: once loading is false it stays false (the page never goes back
\* to the loader), and the fallback view is left only by processing a
\* 'completed' response that carries a result, which then is what is rendered.
C11_FallbackLeftOnlyByCompletedResult ==
    [][/\ loading = FALSE => loading' = FALSE
       /\ (View = "not_found" /\ View' # "not_found") =>
              /\ IsCompletedWithResult(last')
              /\ data' = last'.body
              /\ View' = "results"]_vars

\* C11 witness: after a failure put the page on the fallback view, the late
\* 'completed' response of a request of the same run switched it to the results.
C11_Witness ==
    /\ error # "null"
    /\ cur = 1
    /\ IsCompletedWithResult(last)
    /\ terminal[1]
    /\ View = "results"

PageInit ==
    /\ loading = TRUE
    /\ data = Null
    /\ error = "null"
    /\ progress = 0
    /\ statusMessage = "Initializing analysis..."
    /\ phase = "init"
    /\ cur = 0
    /\ effectJob = [g \in Gens |-> ""]
    /\ pollingInterval = [g \in Gens |-> FALSE]
    /\ progressInterval = [g \in Gens |-> FALSE]
    /\ progressCounter = [g \in Gens |-> 0]
    /\ inflight = [g \in Gens |-> 0]
    /\ issued = [g \in Gens |-> 0]
    /\ nticks = [g \in Gens |-> 0]
    /\ terminal = [g \in Gens |-> FALSE]
    /\ last = NoEvent

(***************************************************************************)
(* ChatPanel: values                                                       *)
(***************************************************************************)
minWidth == 320
maxWidth == 1200
InitialPanelWidth == 384

ErrorText == "Sorry, there was an error processing your request. Please try again."

\* Texts the user can have in the textarea (sequences of characters).
Messages == {<<>>, <<" ">>, <<" ", "b">>}

IsSpace(c) == c = " "

\* String.prototype.trim
RECURSIVE TrimLeft(_)
TrimLeft(m) ==
    IF m # <<>> /\ IsSpace(Head(m)) THEN TrimLeft(Tail(m)) ELSE m
RECURSIVE TrimRight(_)
TrimRight(m) ==
    IF m # <<>> /\ IsSpace(m[Len(m)])
      THEN TrimRight(SubSeq(m, 1, Len(m) - 1)) ELSE m
Trim(m) == TrimRight(TrimLeft(m))

\* Timestamps are unique per entry: who made the entry, and for which send.
ClientStamp(n) == <<"client", n>>
ServerStamp(n) == <<"server", n>>

\* Variant of TempChat that stores the trimmed message as the query.
TempChatTrimmed(n, m) ==
    [timestamp |-> ClientStamp(n), query |-> Trim(m), response |-> ""]

\* tempChat of sendMessage (ModelFile.tsx 113-118)
TempChat(n, m) == [timestamp |-> ClientStamp(n), query |-> m, response |-> ""]

\* The entry the server logs for the n-th message.
ServerChat(n, m) == [timestamp |-> ServerStamp(n), query |-> m, response |-> "answer"]

\* A history GET in flight: the job of the URL and the send it follows
\* (0: the panel was opened or the jobId changed).
NewGet(j, n) == [job |-> j, after |-> n]

\* The JSON body of a successful GET: the server reads the log of the job when
\* it answers; the field can be missing from the body.
GetBody(j, withField) ==
    [hasField |-> withField,
     chat_history |-> IF withField THEN serverLog[j] ELSE <<>>]

\* data.chat_history || []  (ModelFile.tsx 100)
ChatHistoryOf(body) == IF body.hasField THEN body.chat_history ELSE <<>>

ChatEvent(k, n, w) ==
    [kind |-> k, n |-> n, w |-> w, key |-> "none", shift |-> FALSE]

\* An event that started with a keydown in the textarea.
KeyEvent(k, n, key, shift) ==
    [kind |-> k, n |-> n, w |-> 0, key |-> key, shift |-> shift]

\* Keys of the keydown events.
Keys == {"Enter", "a"}

nsent == Len(sentUnder)

(***************************************************************************)
(* ChatPanel: history GET (ModelFile.tsx 81-104)                           *)
(***************************************************************************)
\* fetchChatHistory up to its await: the GET for job j is on the wire.
FetchChatHistory(j, n) == gets' = gets (+) SetToBag({NewGet(j, n)})

\* togglePanel, then the effect on [isOpen, jobId] (ModelFile.tsx 81-85, 197-199)
TogglePanel ==
    /\ isOpen' = ~isOpen
    /\ IF ~isOpen
         THEN /\ BagCardinality(gets) < MaxGets
              /\ FetchChatHistory(jobId, 0)
         ELSE UNCHANGED gets
    /\ chatLast' = ChatEvent("toggle", 0, 0)
    /\ UNCHANGED <<jobId, chatHistory, message, isLoading, serverLog, posts,
                   sentUnder>>
    /\ UNCHANGED <<pageVars, resizeVars>>

\* The panel is re-rendered with another jobId; the effect on [isOpen, jobId]
\* refetches when the panel is open.  chatHistory is not reset.
ChatChangeJobId(j) ==
    /\ j # jobId
    /\ jobId' = j
    /\ IF isOpen
         THEN /\ BagCardinality(gets) < MaxGets
              /\ FetchChatHistory(j, 0)
         ELSE UNCHANGED gets
    /\ chatLast' = ChatEvent("jobId", 0, 0)
    /\ UNCHANGED <<isOpen, chatHistory, message, isLoading, serverLog, posts,
                   sentUnder>>
    /\ UNCHANGED <<pageVars, resizeVars>>

\* The GET succeeds with the given body: setChatHistory(data.chat_history || [])
GetSucceed(g, withField) ==
    /\ BagIn(g, gets)
    /\ gets' = gets (-) SetToBag({g})
    /\ chatHistory' = ChatHistoryOf(GetBody(g.job, withField))
    /\ chatLast' = ChatEvent("get_ok", g.after, IF withField THEN 1 ELSE 0)
    /\ UNCHANGED <<jobId, isOpen, message, isLoading, serverLog, posts,
                   sentUnder>>
    /\ UNCHANGED <<pageVars, resizeVars>>

\* Variant of GetFail that empties the history when the GET fails.
GetFailClearsHistory(g) ==
    /\ BagIn(g, gets)
    /\ gets' = gets (-) SetToBag({g})
    /\ chatHistory' = <<>>
    /\ chatLast' = ChatEvent("get_failed", g.after, 0)
    /\ UNCHANGED <<jobId, isOpen, message, isLoading, serverLog,
                   posts, sentUnder>>
    /\ UNCHANGED <<pageVars, resizeVars>>

\* The GET fails (fetch rejects, !response.ok, json() rejects): console.error only.
GetFail(g) ==
    /\ BagIn(g, gets)
    /\ gets' = gets (-) SetToBag({g})
    /\ chatLast' = ChatEvent("get_failed", g.after, 0)
    /\ UNCHANGED <<jobId, isOpen, chatHistory, message, isLoading, serverLog,
                   posts, sentUnder>>
    /\ UNCHANGED <<pageVars, resizeVars>>

(***************************************************************************)
(* ChatPanel: sending (ModelFile.tsx 106-160, 346-369)                     *)
(***************************************************************************)
\* onChange of the textarea, which is disabled while isLoading.
SetMessage(m) ==
    /\ ~isLoading
    /\ m # message
    /\ message' = m
    /\ chatLast' = ChatEvent("type", 0, 0)
    /\ UNCHANGED <<jobId, isOpen, chatHistory, isLoading, serverLog, gets,
                   posts, sentUnder>>
    /\ UNCHANGED <<pageVars, resizeVars>>

\* sendMessage up to the await of the POST (ModelFile.tsx 106-128).  The
\* textarea and the button are disabled while isLoading.
SendMessageBy(key, shift) ==
    /\ ~isLoading
    /\ IF Trim(message) = <<>>
         THEN /\ chatLast' = KeyEvent("send_blank", 0, key, shift)
              /\ UNCHANGED <<message, isLoading, chatHistory, posts, sentUnder>>
         ELSE /\ nsent < MaxSends
              /\ message' = <<>>
              /\ isLoading' = TRUE
              /\ chatHistory' = Append(chatHistory, TempChat(nsent + 1, message))
              /\ posts' = posts \cup {[n |-> nsent + 1, job |-> jobId,
                                       message |-> message, processed |-> FALSE]}
              /\ sentUnder' = Append(sentUnder, jobId)
              /\ chatLast' = KeyEvent("send", nsent + 1, key, shift)
    /\ UNCHANGED <<jobId, isOpen, serverLog, gets>>
    /\ UNCHANGED <<pageVars, resizeVars>>

\* sendMessage called without a key event (onClick of the send button).
SendMessage == SendMessageBy("none", FALSE)

\* Variant of HandleKeyDown that does not look at e.shiftKey.
HandleKeyDownIgnoresShift(key, shift) ==
    /\ ~isLoading
    /\ IF key = "Enter"
         THEN SendMessageBy(key, shift)
         ELSE /\ chatLast' = KeyEvent("keydown", 0, key, shift)
              /\ UNCHANGED <<jobId, isOpen, chatHistory, message, isLoading,
                             serverLog, gets, posts, sentUnder>>
              /\ UNCHANGED <<pageVars, resizeVars>>

\* handleKeyDown of the textarea, which is disabled while isLoading
\* (ModelFile.tsx 155-160, 348-356).
HandleKeyDown(key, shift) ==
    /\ ~isLoading
    /\ IF key = "Enter" /\ ~shift
         THEN SendMessageBy(key, shift)
         ELSE /\ chatLast' = KeyEvent("keydown", 0, key, shift)
              /\ UNCHANGED <<jobId, isOpen, chatHistory, message, isLoading,
                             serverLog, gets, posts, sentUnder>>
              /\ UNCHANGED <<pageVars, resizeVars>>

\* The server handles the POST: the exchange is appended to the log of the job.
ServerProcessPost(p) ==
    /\ p \in posts
    /\ ~p.processed
    /\ serverLog' = [serverLog EXCEPT ![p.job] = Append(@, ServerChat(p.n, p.message))]
    /\ posts' = (posts \ {p}) \cup {[p EXCEPT !.processed = TRUE]}
    /\ chatLast' = ChatEvent("server_post", p.n, 0)
    /\ UNCHANGED <<jobId, isOpen, chatHistory, message, isLoading, gets,
                   sentUnder>>
    /\ UNCHANGED <<pageVars, resizeVars>>

\* Variant of PostSucceed that does not refetch the history.
PostSucceedNoRefetch(p) ==
    /\ p \in posts
    /\ p.processed
    /\ posts' = posts \ {p}
    /\ isLoading' = FALSE
    /\ chatLast' = ChatEvent("post_ok", p.n, 0)
    /\ UNCHANGED <<jobId, isOpen, chatHistory, message, serverLog, sentUnder,
                   gets>>
    /\ UNCHANGED <<pageVars, resizeVars>>

\* The POST succeeds (ModelFile.tsx 134-135, 150-152): fetchChatHistory() of
\* the render that sent the message, then setIsLoading(false).
PostSucceed(p) ==
    /\ p \in posts
    /\ p.processed
    /\ BagCardinality(gets) < MaxGets
    /\ posts' = posts \ {p}
    /\ FetchChatHistory(p.job, p.n)
    /\ isLoading' = FALSE
    /\ chatLast' = ChatEvent("post_ok", p.n, 0)
    /\ UNCHANGED <<jobId, isOpen, chatHistory, message, serverLog, sentUnder>>
    /\ UNCHANGED <<pageVars, resizeVars>>

\* Variant of PostFail without the finally block.
PostFailKeepsLoading(p) ==
    /\ p \in posts
    /\ posts' = posts \ {p}
    /\ chatHistory' = IF chatHistory = <<>> THEN chatHistory
                      ELSE [chatHistory EXCEPT ![Len(chatHistory)] =
                               [@ EXCEPT !.response = ErrorText]]
    /\ chatLast' = ChatEvent("post_failed", p.n, 0)
    /\ UNCHANGED <<jobId, isOpen, message, isLoading, serverLog, gets,
                   sentUnder>>
    /\ UNCHANGED <<pageVars, resizeVars>>

\* The updater of the catch block (ModelFile.tsx 139-149).
MarkLastAsError(prev) ==
    IF Len(prev) - 1 >= 0
      THEN [prev EXCEPT ![Len(prev)] = [@ EXCEPT !.response = ErrorText]]
      ELSE prev

\* The POST fails (fetch rejects, !response.ok, json() rejects), whether or
\* not the server has handled it (ModelFile.tsx 137-152).
PostFail(p) ==
    /\ p \in posts
    /\ posts' = posts \ {p}
    /\ chatHistory' = MarkLastAsError(chatHistory)
    /\ isLoading' = FALSE
    /\ chatLast' = ChatEvent("post_failed", p.n, 0)
    /\ UNCHANGED <<jobId, isOpen, message, serverLog, gets, sentUnder>>
    /\ UNCHANGED <<pageVars, resizeVars>>

(***************************************************************************)
(* ChatPanel: resizing (ModelFile.tsx 166-195)                             *)
(***************************************************************************)
\* Window widths and pointer positions of the mouse events.
WindowWidths == {1280, 1920}
ClientXs == {0, 80, 81, 300, 500, 719, 720, 721, 900, 960, 961, 1100, 1400,
             1599, 1600, 1601, 1919}

\* onMouseDown of the resize handle, which is rendered while the panel is open.
StartResizing ==
    /\ isOpen
    /\ isResizing' = TRUE
    /\ chatLast' = ChatEvent("mousedown", 0, 0)
    /\ UNCHANGED panelWidth
    /\ UNCHANGED <<jobId, pageVars, chatHistory, isOpen, message, isLoading,
                   serverLog, gets, posts, sentUnder>>

\* Variant of NewPanelWidth that clamps the width into [minWidth, maxWidth].
NewPanelWidthClamped(w, iw, x) ==
    IF iw - x < minWidth THEN minWidth
    ELSE IF iw - x > maxWidth THEN maxWidth
    ELSE iw - x

\* The width handleMouseMove stores for a pointer at x in a window iw wide.
NewPanelWidth(w, iw, x) ==
    IF iw - x >= minWidth /\ iw - x <= maxWidth THEN iw - x ELSE w

\* A mousemove on the document; the listener exists while isResizing.
MouseMove(iw, x) ==
    /\ panelWidth' = IF isResizing THEN NewPanelWidth(panelWidth, iw, x)
                                   ELSE panelWidth
    /\ chatLast' = ChatEvent("mousemove", 0, iw - x)
    /\ UNCHANGED isResizing
    /\ UNCHANGED <<jobId, pageVars, chatHistory, isOpen, message, isLoading,
                   serverLog, gets, posts, sentUnder>>

\* A mouseup on the document; the listener exists while isResizing.
MouseUp ==
    /\ isResizing
    /\ isResizing' = FALSE
    /\ chatLast' = ChatEvent("mouseup", 0, 0)
    /\ UNCHANGED panelWidth
    /\ UNCHANGED <<jobId, pageVars, chatHistory, isOpen, message, isLoading,
                   serverLog, gets, posts, sentUnder>>

(***************************************************************************)
(* ChatPanel: properties                                                   *)
(***************************************************************************)
Stamps(h) == {h[i].timestamp : i \in 1..Len(h)}

\* C7 as stated: every entry of chatHistory shown in the open panel is an
\* entry of the server's log of the current jobId or the optimistic entry of
\* a send issued under the current jobId.
C7_HistoryBelongsToJob ==
    isOpen => \A t \in Stamps(chatHistory) :
        \/ t \in Stamps(serverLog[jobId])
        \/ \E n \in 1..nsent : t = ClientStamp(n) /\ sentUnder[n] = jobId

\* C8: a successful POST puts one GET for the job of that POST in flight; a
\* successful GET replaces chatHistory by the returned chat_history, or by the
\* empty list when the field is absent, so that after the GET that follows a
\* send the server's entry of that message is shown and the optimistic one is
\* gone; opening the panel puts one GET for the current jobId in flight.
C8_RefetchAfterPostAndOnOpen ==
    [][/\ chatLast'.kind = "post_ok" =>
             \E p \in posts :
                 /\ p.n = chatLast'.n
                 /\ p.job = sentUnder[p.n]
                 /\ gets' = gets (+) SetToBag({NewGet(p.job, p.n)})
       /\ chatLast'.kind = "get_ok" =>
             \E g \in BagToSet(gets) :
                 /\ g.after = chatLast'.n
                 /\ gets' = gets (-) SetToBag({g})
                 /\ chatHistory' = IF chatLast'.w = 1 THEN serverLog[g.job]
                                                      ELSE <<>>
                 /\ (g.after > 0 /\ chatLast'.w = 1) =>
                        /\ ServerStamp(g.after) \in Stamps(chatHistory')
                        /\ ClientStamp(g.after) \notin Stamps(chatHistory')
       /\ (~isOpen /\ isOpen') =>
             gets' = gets (+) SetToBag({NewGet(jobId, 0)})]_vars

\* C8 witness: the GET that follows the second send has succeeded and the
\* history shows the server's entries of both messages.
C8_Witness ==
    /\ chatLast.kind = "get_ok"
    /\ chatLast.n = 2
    /\ chatLast.w = 1
    /\ Len(chatHistory) = 2
    /\ ServerStamp(2) \in Stamps(chatHistory)

\* C9 as stated: when the POST of the n-th message fails, the entry of that
\* message gets the error text as its response and every other entry of
\* chatHistory is unchanged.
C9_ErrorMarksFailedMessageOnly ==
    [][chatLast'.kind = "post_failed" =>
          /\ Len(chatHistory') = Len(chatHistory)
          /\ \E i \in 1..Len(chatHistory') :
                 /\ chatHistory'[i].timestamp = ClientStamp(chatLast'.n)
                 /\ chatHistory'[i].response = ErrorText
          /\ \A i \in 1..Len(chatHistory) :
                 chatHistory[i].timestamp # ClientStamp(chatLast'.n) =>
                     chatHistory'[i] = chatHistory[i]]_vars

\* C10: panelWidth starts at 384 and stays within [minWidth, maxWidth]; it
\* changes only on a mousemove while isResizing, to the computed width;
\* isResizing becomes true on mousedown and false on mouseup only; a move
\* whose computed width is out of range leaves panelWidth unchanged.
C10_PanelWidthInRange ==
    /\ panelWidth = 384
    /\ [][/\ minWidth <= panelWidth' /\ panelWidth' <= maxWidth
          /\ panelWidth' # panelWidth =>
                 /\ isResizing
                 /\ chatLast'.kind = "mousemove"
                 /\ panelWidth' = chatLast'.w
          /\ (isResizing /\ chatLast'.kind = "mousemove"
                /\ minWidth <= chatLast'.w /\ chatLast'.w <= maxWidth) =>
                 panelWidth' = chatLast'.w
          /\ (chatLast'.kind = "mousemove"
                /\ (chatLast'.w < minWidth \/ chatLast'.w > maxWidth)) =>
                 panelWidth' = panelWidth
          /\ (isResizing' /\ ~isResizing) => chatLast'.kind = "mousedown"
          /\ (isResizing /\ ~isResizing') => chatLast'.kind = "mouseup"]_vars

\* C10 witness: while resizing, a move beyond the maximum has left a width set
\* by an earlier move as it was.
C10_Witness ==
    /\ isResizing
    /\ chatLast.kind = "mousemove"
    /\ chatLast.w > maxWidth
    /\ panelWidth # InitialPanelWidth
    /\ panelWidth < maxWidth

\* C12: a send of a non-blank message appends one entry with the typed
\* message as query and an empty response, keeps the earlier entries as they
\* were, empties the input, sets isLoading and leaves the POST in flight.
C12_SendAppendsOptimisticEntry ==
    [][chatLast'.kind = "send" =>
          /\ Trim(message) # <<>>
          /\ Len(chatHistory') = Len(chatHistory) + 1
          /\ SubSeq(chatHistory', 1, Len(chatHistory)) = chatHistory
          /\ chatHistory'[Len(chatHistory')].query = message
          /\ chatHistory'[Len(chatHistory')].response = ""
          /\ message' = <<>>
          /\ isLoading' = TRUE
          /\ \E p \in posts' : p.n = chatLast'.n /\ p.message = message
                                /\ ~p.processed]_vars

\* C12 witness: a message was just sent while the history already held an
\* entry, and its POST has not settled.
C12_Witness ==
    /\ chatLast.kind = "send"
    /\ Len(chatHistory) = 2
    /\ chatHistory[2].query = <<" ", "b">>
    /\ posts # {}

\* C13: a failed history GET leaves chatHistory, message, isLoading and
\* isOpen as they were and starts no request.
C13_FailedGetChangesNothing ==
    [][chatLast'.kind = "get_failed" =>
          /\ UNCHANGED <<chatHistory, message, isLoading, isOpen, posts>>
          /\ BagCardinality(gets') = BagCardinality(gets) - 1]_vars

\* C13 witness: a history GET failed while the history was not empty and a
\* POST was outstanding.
C13_Witness ==
    /\ chatLast.kind = "get_failed"
    /\ chatHistory # <<>>
    /\ isLoading
    /\ isOpen

\* C15: isLoading is true exactly while a chat POST is outstanding, and at
\* most one chat POST is outstanding.
C15_LoadingIffPostOutstanding ==
    /\ isLoading <=> posts # {}
    /\ Cardinality(posts) <= 1

\* C15 witness: the POST of a message has succeeded and isLoading is false
\* while the history GET that follows it is still in flight.
C15_Witness ==
    /\ ~isLoading
    /\ chatLast.kind = "post_ok"
    /\ \E j \in Jobs : BagIn(NewGet(j, chatLast.n), gets)

\* C16 as stated: when a history GET that followed an earlier send settles
\* while the panel is open and the POST of a later message is outstanding, the
\* optimistic entry of that message is still the last entry of chatHistory.
C16_OptimisticEntryStays ==
    [][\A p \in posts :
          (/\ isOpen
           /\ chatLast'.kind = "get_ok"
           /\ chatLast'.n >= 1
           /\ chatLast'.n < p.n) =>
             /\ chatHistory' # <<>>
             /\ chatHistory'[Len(chatHistory')].timestamp = ClientStamp(p.n)]_vars

\* C17: sendMessage with a blank message changes nothing and issues no
\* request, and never sends; Enter without Shift calls sendMessage, and
\* Shift+Enter changes nothing.
C17_BlankSendAndShiftEnterAreNoOps ==
    [][/\ chatLast'.kind = "send_blank" =>
             /\ Trim(message) = <<>>
             /\ UNCHANGED <<chatHistory, message, isLoading, posts, gets>>
       /\ chatLast'.kind = "send" => Trim(message) # <<>>
       /\ (chatLast'.key = "Enter" /\ ~chatLast'.shift) =>
             chatLast'.kind \in {"send", "send_blank"}
       /\ (chatLast'.key = "Enter" /\ chatLast'.shift) =>
             /\ chatLast'.kind = "keydown"
             /\ UNCHANGED <<chatHistory, message, isLoading, posts, gets>>]_vars

\* C17 witness: Enter was pressed on a whitespace-only message while the
\* history was not empty, and nothing was sent.
C17_Witness ==
    /\ chatLast.kind = "send_blank"
    /\ chatLast.key = "Enter"
    /\ message = <<" ">>
    /\ chatHistory # <<>>
    /\ posts = {}

ChatInit ==
    /\ isOpen = FALSE
    /\ chatHistory = <<>>
    /\ message = <<>>
    /\ isLoading = FALSE
    /\ panelWidth = InitialPanelWidth
    /\ isResizing = FALSE
    /\ serverLog = [j \in Jobs |-> <<>>]
    /\ gets = EmptyBag
    /\ posts = {}
    /\ sentUnder = <<>>
    /\ chatLast = ChatEvent("none", 0, 0)

\* Values of progressCounter from which the cap is within reach of one
\* 'in_progress' response or one tick.
NearCap == (ProgressCap - RandomMax - 1)..(ProgressCap - 1)

\* The page after the mount and c ticks of the progress timer, c in NearCap,
\* with the first status request still in flight; nticks counts the ticks
\* taken from here on.
PageNearCap ==
    \E c \in NearCap :
        /\ loading = TRUE
        /\ data = Null
        /\ error = "null"
        /\ progress = c
        /\ statusMessage = "Initializing analysis..."
        /\ phase = "mounted"
        /\ cur = 1
        /\ effectJob = [g \in Gens |-> IF g = 1 THEN jobId ELSE ""]
        /\ pollingInterval = [g \in Gens |-> g = 1]
        /\ progressInterval = [g \in Gens |-> g = 1]
        /\ progressCounter = [g \in Gens |-> IF g = 1 THEN c ELSE 0]
        /\ inflight = [g \in Gens |-> IF g = 1 THEN 1 ELSE 0]
        /\ issued = [g \in Gens |-> IF g = 1 THEN 1 ELSE 0]
        /\ nticks = [g \in Gens |-> 0]
        /\ terminal = [g \in Gens |-> FALSE]
        /\ last = Event("progress", 1, Null)

InitNearCap ==
    /\ jobId \in Jobs
    /\ PageNearCap
    /\ ChatInit

Init ==
    /\ jobId \in Jobs
    /\ PageInit
    /\ ChatInit

Next ==
    \/ Mount
    \/ \E j \in Jobs : ChangeJobId(j)
    \/ Unmount
    \/ \E g \in Gens : PollTick(g)
    \/ \E g \in Gens : ProgressTick(g)
    \/ \E g \in Gens : \E r \in 1..RandomMax :
          \E body \in StatusBodies(effectJob[g]) : SettleBody(g, body, r)
    \/ \E g \in Gens : \E e \in FetchErrors : SettleError(g, e)

Spec == Init /\ [][Next]_vars

\* The results page from a state late in the first run of the effect.
NextProgress ==
    \/ \E j \in Jobs : ChangeJobId(j)
    \/ Unmount
    \/ \E g \in Gens : PollTick(g)
    \/ \E g \in Gens : ProgressTick(g)
    \/ \E g \in Gens : \E r \in 1..RandomMax :
          \E body \in StatusBodies(effectJob[g]) : SettleBody(g, body, r)
    \/ \E g \in Gens : \E e \in FetchErrors : SettleError(g, e)

SpecProgress == InitNearCap /\ [][NextProgress]_vars

\* The chat panel alone.
NextChat ==
    \/ TogglePanel
    \/ \E j \in Jobs : ChatChangeJobId(j)
    \/ \E g \in BagToSet(gets) : \E f \in BOOLEAN : GetSucceed(g, f)
    \/ \E g \in BagToSet(gets) : GetFail(g)
    \/ \E m \in Messages : SetMessage(m)
    \/ SendMessage
    \/ \E p \in posts : ServerProcessPost(p)
    \/ \E p \in posts : PostSucceed(p)
    \/ \E p \in posts : PostFail(p)

SpecChat == Init /\ [][NextChat]_vars

\* Typing, key presses and sends in the panel of one job.
NextKeys ==
    \/ TogglePanel
    \/ \E g \in BagToSet(gets) : \E f \in BOOLEAN : GetSucceed(g, f)
    \/ \E g \in BagToSet(gets) : GetFail(g)
    \/ \E m \in Messages : SetMessage(m)
    \/ SendMessage
    \/ \E key \in Keys : \E shift \in BOOLEAN : HandleKeyDown(key, shift)
    \/ \E p \in posts : ServerProcessPost(p)
    \/ \E p \in posts : PostSucceed(p)
    \/ \E p \in posts : PostFail(p)

SpecKeys == Init /\ [][NextKeys]_vars

\* Opening and resizing the panel.
NextResize ==
    \/ TogglePanel
    \/ \E g \in BagToSet(gets) : \E f \in BOOLEAN : GetSucceed(g, f)
    \/ \E g \in BagToSet(gets) : GetFail(g)
    \/ StartResizing
    \/ \E iw \in WindowWidths : \E x \in ClientXs : MouseMove(iw, x)
    \/ MouseUp

SpecResize == Init /\ [][NextResize]_vars

====
